---- MODULE Spec2Model ----
(***************************************************************************)
(* A model of the Google Calendar / Tasks command-line client              *)
(* (google/skills/google-calendar/scripts/gcal_api.py).                    *)
(*                                                                         *)
(* One invocation of the program is a process that parses its arguments,   *)
(* runs one cmd_* function and exits.  The state is what the invocation    *)
(* holds in memory (arguments, credential, body, error raised), the        *)
(* credential file on disk that all invocations share, and the log of the  *)
(* network calls each invocation has made.                                 *)
(*                                                                         *)
(* Spec      one invocation, every command and argument shape.             *)
(* SpecRace  two concurrent invocations on the same credential file.       *)
(* SpecTime  the pure function time_object over bounded strings.           *)
(***************************************************************************)
EXTENDS Integers, Sequences, FiniteSets, TLC

VARIABLES
    file,        \* content of the credential file on disk (shared)
    file0,       \* the content the file had before any invocation started
    issued,      \* number of access tokens the token endpoint has issued
    pc,          \* pc[p]: where invocation p is
    args,        \* args[p]: the parsed argparse.Namespace
    creds,       \* creds[p]: the Credentials object in memory
    loadState,   \* loadState[p]: progress of load_credentials
    inputs,      \* inputs[p]: outcome of each load_json_input call
    body,        \* body[p]: the request body the command ends up with
    source,      \* source[p]: which source produced body[p]
    net,         \* net[p]: network calls made so far, in order
    err,         \* err[p]: the exception raised, "none" if none
    result,      \* result[p]: value returned by request()
    exitcode,    \* exitcode[p]: value returned by main(), -1 while running
    response,    \* response[p]: what session.request(...) gave back
    sent,        \* sent[p]: the request handed to session.request(...)
    stdout,      \* stdout[p]: what main() printed to standard output
    stderr,      \* stderr[p]: what main() printed to standard error
    tvalue,      \* SpecTime: the value handed to time_object
    tzone,       \* SpecTime: the time zone handed to time_object
    tresult,     \* SpecTime: what time_object returned
    utarget,     \* SpecUrl: the path handed to request()
    ubase,       \* SpecUrl: the base_url handed to request()
    uresult      \* SpecUrl: the URL request() resolved

vars == <<file, file0, issued, pc, args, creds, loadState, inputs, body,
          source, net, err, result, exitcode, response, sent, stdout, stderr,
          tvalue, tzone, tresult, utarget, ubase, uresult>>

procVars == <<file, file0, issued, pc, args, creds, loadState, inputs, body,
              source, net, err, result, exitcode, response, sent, stdout,
              stderr>>

timeVars == <<tvalue, tzone, tresult>>

urlVars == <<utarget, ubase, uresult>>

Procs == {"A", "B"}

(***************************************************************************)
(* Python values.  An optional string is a string; NONE stands for None.   *)
(* A JSON value is a tagged record; PyNone is what json.loads("null")      *)
(* returns and what load_json_input returns when nothing was supplied.     *)
(***************************************************************************)
NONE == "<None>"

\* Python truthiness of an Optional[str]: None and "" are falsy.
Truthy(s) == s # NONE /\ s # ""

PyNone == [tag |-> "None"]

Dict(items) == [tag |-> "dict", items |-> items]

EmptyDict == Dict(<<>>)

\* Python truthiness of a parsed JSON value: None and {} are falsy.
TruthyValue(v) == v.tag = "dict" /\ DOMAIN v.items # {}

(***************************************************************************)
(* JSON texts that appear on the command line or in a body file, and what  *)
(* json.loads makes of each.                                               *)
(***************************************************************************)
NullText == "null"

EmptyObjText == "{}"

ObjText == "{\"summary\": \"from-json\"}"

BadText == "{\"summary\": "

JsonTexts == {NullText, EmptyObjText, ObjText, BadText}

\* json.loads / json.load: the parsed value, or a JSONDecodeError.
json_loads(text) ==
    CASE text = NullText     -> [ok |-> TRUE,  val |-> PyNone]
      [] text = EmptyObjText -> [ok |-> TRUE,  val |-> EmptyDict]
      [] text = ObjText      -> [ok |-> TRUE,  val |-> Dict([summary |-> "from-json"])]
      [] OTHER               -> [ok |-> FALSE, val |-> PyNone]

\* The files a --body-file / --params-file path can name.
ObjFile == "obj.json"

NullFile == "null.json"

BadFile == "bad.json"

GoneFile == "gone.json"

InputFileExists(path) == path \in {ObjFile, NullFile, BadFile}

InputFileText(path) ==
    CASE path = ObjFile  -> ObjText
      [] path = NullFile -> NullText
      [] OTHER           -> BadText

\* Mutation of the conflict test: the test is left out and the file wins.
load_json_input_conflict_unchecked(raw, path) == FALSE

\* load_json_input, line 19: both sources were given.
load_json_input_conflict(raw, path) == Truthy(raw) /\ Truthy(path)

\* load_json_input(raw, path): the value returned or the exception raised,
\* with the number of files opened and of texts parsed on the way.
load_json_input(raw, path) ==
    IF load_json_input_conflict(raw, path) THEN
        [err |-> "usage_conflict", val |-> PyNone, reads |-> 0, parses |-> 0]
    ELSE IF Truthy(path) THEN
        IF ~InputFileExists(path) THEN
            [err |-> "input_file_missing", val |-> PyNone, reads |-> 1, parses |-> 0]
        ELSE IF json_loads(InputFileText(path)).ok THEN
            [err |-> "none", val |-> json_loads(InputFileText(path)).val,
             reads |-> 1, parses |-> 1]
        ELSE
            [err |-> "json_decode", val |-> PyNone, reads |-> 1, parses |-> 1]
    ELSE IF Truthy(raw) THEN
        IF json_loads(raw).ok THEN
            [err |-> "none", val |-> json_loads(raw).val, reads |-> 0, parses |-> 1]
        ELSE
            [err |-> "json_decode", val |-> PyNone, reads |-> 0, parses |-> 1]
    ELSE
        [err |-> "none", val |-> PyNone, reads |-> 0, parses |-> 0]

\* A load_json_input call that has not been made.
NotCalled == [err |-> "not_called", val |-> PyNone, reads |-> 0, parses |-> 0]

(***************************************************************************)
(* time_object.  A string is a sequence of characters.                     *)
(***************************************************************************)
Contains(s, c) == \E i \in 1..Len(s) : s[i] = c

\* Length of the date portion that value[10:] skips.
DatePortionLen == 10

\* Python's value[10:].
AfterDatePortion(value) == SubSeq(value, DatePortionLen + 1, Len(value))

\* Mutation of the offset test: "+" is looked for after the date portion
\* only, as "-" is.
time_object_attaches_after_date(value, time_zone) ==
    /\ Truthy(time_zone)
    /\ ~Contains(value, "Z")
    /\ ~Contains(AfterDatePortion(value), "+")
    /\ ~Contains(AfterDatePortion(value), "-")

\* The condition under which time_object attaches the fallback zone.
time_object_attaches(value, time_zone) ==
    /\ Truthy(time_zone)
    /\ ~Contains(value, "Z")
    /\ ~Contains(value, "+")
    /\ ~Contains(AfterDatePortion(value), "-")

time_object(value, time_zone) ==
    IF Contains(value, "T") THEN
        IF time_object_attaches(value, time_zone)
        THEN [dateTime |-> value, timeZone |-> time_zone]
        ELSE [dateTime |-> value]
    ELSE [date |-> value]

(***************************************************************************)
(* The credential file and the Credentials object.                         *)
(***************************************************************************)
MissingFile == [kind |-> "missing", data |-> <<>>]

\* The file right after open(path, "w") truncated it and before the write.
TruncatedFile == [kind |-> "truncated", data |-> <<>>]

\* Credentials.to_json(): the serialized form write_text puts on disk.
to_json(c) == [kind |-> "json", data |-> <<c.token, c.refresh_token, c.expiry>>]

\* Credentials.from_authorized_user_file(): the object built from the file.
from_authorized_user_file(f) ==
    [token |-> f.data[1], refresh_token |-> f.data[2], expiry |-> f.data[3]]

NoCreds == [token |-> -1, refresh_token |-> NONE, expiry |-> "none"]

\* Credentials.expired and Credentials.valid.
Expired(c) == c.expiry = "past"

Valid(c) == c.token >= 0 /\ ~Expired(c)

\* Mutation of the existence check: the check is left out.
TokenFileExistsUnchecked(f) == TRUE

\* load_credentials, line 31: the token file exists.
TokenFileExists(f) == f.kind # "missing"

\* Mutations of the refresh condition: the refresh token test negated, and
\* the expiry test left out.
NeedsRefreshNegated(c) == Expired(c) /\ ~Truthy(c.refresh_token)

NeedsRefreshUnexpired(c) == Truthy(c.refresh_token)

\* load_credentials, line 34: the condition under which it refreshes.
NeedsRefresh(c) == Expired(c) /\ Truthy(c.refresh_token)

\* What Credentials.refresh leaves in the object when the exchange succeeds.
Refreshed(c, newToken) == [c EXCEPT !.token = newToken, !.expiry = "future"]

\* The credential files an invocation can find on disk when it starts.
InitialFiles ==
    {MissingFile} \cup
    {to_json([token |-> 0, refresh_token |-> rt, expiry |-> e]) :
        rt \in {NONE, "refresh-token"}, e \in {"past", "future"}}

(***************************************************************************)
(* Commands and their arguments (build_parser).                            *)
(***************************************************************************)
EventCommands == {"create-event", "update-event"}

TasklistCommands == {"create-tasklist", "update-tasklist"}

TaskCommands == {"create-task", "update-task"}

CreateCommands == {"create-event", "create-tasklist", "create-task"}

UpdateCommands == {"update-event", "update-tasklist", "update-task"}

\* Commands that resolve a body with load_json_input after opening a session.
BodyCommands == CreateCommands \cup UpdateCommands

\* Commands that only open a session and send a request.
PlainCommands ==
    {"list-calendars", "list-events", "get-event", "delete-event", "freebusy",
     "list-tasklists", "get-tasklist", "delete-tasklist", "list-tasks",
     "get-task", "delete-task", "move-task", "clear-tasks"}

Commands == {"call"} \cup BodyCommands \cup PlainCommands

\* A string argument that was given is a sequence of characters when the
\* code looks inside it (start, end) and a string otherwise.  An absent
\* sequence-valued argument is <<>>: the code only tests its truthiness.
DateValue == <<"2", "0", "2", "4", "-", "0", "1", "-", "0", "1">>

DateTimeValue == DateValue \o <<"T", "1", "0", ":", "0", "0">>

\* The Namespace with every optional argument left out.
NoArgs(cmd) ==
    [cmd |-> cmd, method |-> NONE, path |-> <<>>,
     params |-> NONE, params_file |-> NONE, body |-> NONE, body_file |-> NONE,
     summary |-> NONE, start |-> <<>>, end |-> <<>>, time_zone |-> NONE,
     location |-> NONE, description |-> NONE, attendees |-> <<>>,
     recurrence |-> <<>>,
     title |-> NONE, notes |-> NONE, due |-> NONE, status |-> NONE,
     completed |-> NONE]

\* Structured-field shapes of the event commands.
EventFieldShapes(cmd) ==
    {NoArgs(cmd),
     [NoArgs(cmd) EXCEPT !.summary = "Standup"],
     [NoArgs(cmd) EXCEPT !.summary = "", !.start = DateValue, !.end = DateValue],
     [NoArgs(cmd) EXCEPT !.summary = "Standup", !.start = DateValue,
                         !.end = DateValue],
     [NoArgs(cmd) EXCEPT !.summary = "Standup", !.start = DateTimeValue,
                         !.end = DateTimeValue, !.time_zone = "Asia/Tokyo",
                         !.location = "Room 1", !.description = "Daily",
                         !.attendees = <<"a@example.com", "", "b@example.com">>,
                         !.recurrence = <<"RRULE:FREQ=DAILY">>]}

\* Structured-field shapes of the task-list commands.
TasklistFieldShapes(cmd) ==
    {NoArgs(cmd),
     [NoArgs(cmd) EXCEPT !.title = ""],
     [NoArgs(cmd) EXCEPT !.title = "Inbox"]}

\* Structured-field shapes of the task commands.
TaskFieldShapes(cmd) ==
    {NoArgs(cmd),
     [NoArgs(cmd) EXCEPT !.notes = "call back"],
     [NoArgs(cmd) EXCEPT !.title = "Buy milk"],
     [NoArgs(cmd) EXCEPT !.title = "Buy milk", !.notes = "2 l",
                         !.due = "2024-01-02T00:00:00Z",
                         !.status = "needsAction", !.completed = ""]}

FieldShapes(cmd) ==
    IF cmd \in EventCommands THEN EventFieldShapes(cmd)
    ELSE IF cmd \in TasklistCommands THEN TasklistFieldShapes(cmd)
    ELSE IF cmd \in TaskCommands THEN TaskFieldShapes(cmd)
    ELSE {NoArgs(cmd)}

\* What --body / --params and --body-file / --params-file can be given as.
InlineInputs == {NONE, ""} \cup JsonTexts

FileInputs == {NONE, ObjFile, NullFile, BadFile, GoneFile}

\* Every argument shape of one invocation.
AllArgs ==
    {[a EXCEPT !.body = b, !.body_file = f] :
        a \in UNION {FieldShapes(cmd) : cmd \in BodyCommands},
        b \in InlineInputs, f \in FileInputs}
    \cup
    {[NoArgs("call") EXCEPT !.method = "patch", !.path = t,
                            !.params = q, !.params_file = g,
                            !.body = b, !.body_file = f] :
        t \in {<<"/", "x">>, <<"x">>},
        q \in {NONE, ObjText, BadText}, g \in {NONE, ObjFile},
        b \in InlineInputs, f \in FileInputs}
    \cup
    {NoArgs(cmd) : cmd \in PlainCommands}

\* The argument shapes of the invocations that race on the credential file.
RaceArgs ==
    {[NoArgs("call") EXCEPT !.method = "get", !.path = <<"x">>]}
    \cup {NoArgs(cmd) : cmd \in {"get-event", "update-task"}}
    \cup {[NoArgs("update-task") EXCEPT !.title = "Buy milk"],
          [NoArgs("create-event") EXCEPT !.body = BadText]}

(***************************************************************************)
(* Structured-field assembly of the create and update commands.            *)
(***************************************************************************)
RequiredEventKeys == {"summary", "start", "end"}

OptionalEventKeys == {"location", "description", "attendees", "recurrence"}

TaskKeys == {"title", "notes", "due", "status", "completed"}

\* [{"email": email} for email in args.attendees.split(",") if email], on
\* the segments that split(",") yields.
attendee_list(segments) ==
    LET kept == SelectSeq(segments, LAMBDA e : e # "")
    IN  [i \in 1..Len(kept) |-> [email |-> kept[i]]]

\* Whether the argument behind a body key is truthy.
FieldSupplied(a, k) ==
    CASE k = "summary"     -> Truthy(a.summary)
      [] k = "start"       -> a.start # <<>>
      [] k = "end"         -> a.end # <<>>
      [] k = "location"    -> Truthy(a.location)
      [] k = "description" -> Truthy(a.description)
      [] k = "attendees"   -> a.attendees # <<>>
      [] k = "recurrence"  -> a.recurrence # <<>>
      [] k = "title"       -> Truthy(a.title)
      [] k = "notes"       -> Truthy(a.notes)
      [] k = "due"         -> Truthy(a.due)
      [] k = "status"      -> Truthy(a.status)
      [] k = "completed"   -> Truthy(a.completed)

\* The value stored under a body key.
FieldValue(a, k) ==
    CASE k = "summary"     -> a.summary
      [] k = "start"       -> time_object(a.start, a.time_zone)
      [] k = "end"         -> time_object(a.end, a.time_zone)
      [] k = "location"    -> a.location
      [] k = "description" -> a.description
      [] k = "attendees"   -> attendee_list(a.attendees)
      [] k = "recurrence"  -> a.recurrence
      [] k = "title"       -> a.title
      [] k = "notes"       -> a.notes
      [] k = "due"         -> a.due
      [] k = "status"      -> a.status
      [] k = "completed"   -> a.completed

Assemble(a, keys) == Dict([k \in keys |-> FieldValue(a, k)])

Supplied(a, keys) == {k \in keys : FieldSupplied(a, k)}

\* task_body_from_args
task_body_from_args(a) == Assemble(a, Supplied(a, TaskKeys))

\* Mutation of the required-fields check of create-event: "and" for "or".
RequiredMissingAll(a) ==
    CASE a.cmd = "create-event" ->
            ~FieldSupplied(a, "summary") /\ ~FieldSupplied(a, "start")
                /\ ~FieldSupplied(a, "end")
      [] a.cmd \in {"create-tasklist", "create-task"} -> ~FieldSupplied(a, "title")
      [] OTHER -> FALSE

\* The "required unless --body is provided" checks of the create commands.
RequiredMissing(a) ==
    CASE a.cmd = "create-event" ->
            ~FieldSupplied(a, "summary") \/ ~FieldSupplied(a, "start")
                \/ ~FieldSupplied(a, "end")
      [] a.cmd \in {"create-tasklist", "create-task"} -> ~FieldSupplied(a, "title")
      [] OTHER -> FALSE

\* The body a command assembles from its structured fields.
FieldsBody(a) ==
    CASE a.cmd = "create-event" ->
            Assemble(a, RequiredEventKeys \cup Supplied(a, OptionalEventKeys))
      [] a.cmd = "update-event" ->
            Assemble(a, Supplied(a, RequiredEventKeys \cup OptionalEventKeys))
      [] a.cmd = "create-tasklist" -> Assemble(a, {"title"})
      [] a.cmd = "update-tasklist" -> Assemble(a, Supplied(a, {"title"}))
      [] OTHER -> task_body_from_args(a)

\* Mutation of the branch test: the structured fields are always taken.
BodyIsNoneAlways(v) == TRUE

\* Whether the command takes the structured-field branch: "if body is None".
BodyIsNone(v) == v.tag = "None"

\* What a command makes of its arguments between argument parsing and
\* request(): the load_json_input calls it made, and the body it ends up
\* with or the exception it raises.
Built(e, b, src, pin, bin) ==
    [err |-> e, body |-> b, source |-> src, inputs |-> [params |-> pin, body |-> bin]]

build_call(a) ==
    LET pin == load_json_input(a.params, a.params_file)
        bin == load_json_input(a.body, a.body_file)
    IN  IF pin.err # "none" THEN Built(pin.err, PyNone, "none", pin, NotCalled)
        ELSE IF bin.err # "none" THEN Built(bin.err, PyNone, "none", pin, bin)
        ELSE Built("none", bin.val,
                   IF BodyIsNone(bin.val) THEN "none" ELSE "override", pin, bin)

build_create(a) ==
    LET bin == load_json_input(a.body, a.body_file)
    IN  IF bin.err # "none" THEN Built(bin.err, PyNone, "none", NotCalled, bin)
        ELSE IF BodyIsNone(bin.val) THEN
            IF RequiredMissing(a)
            THEN Built("usage_required", PyNone, "fields", NotCalled, bin)
            ELSE Built("none", FieldsBody(a), "fields", NotCalled, bin)
        ELSE Built("none", bin.val, "override", NotCalled, bin)

build_update(a) ==
    LET bin == load_json_input(a.body, a.body_file)
        viaFields == BodyIsNone(bin.val)
        b == IF viaFields THEN FieldsBody(a) ELSE bin.val
        src == IF viaFields THEN "fields" ELSE "override"
    IN  IF bin.err # "none" THEN Built(bin.err, PyNone, "none", NotCalled, bin)
        ELSE IF ~TruthyValue(b) THEN Built("usage_noupdate", b, src, NotCalled, bin)
        ELSE Built("none", b, src, NotCalled, bin)

build(a) ==
    IF a.cmd = "call" THEN build_call(a)
    ELSE IF a.cmd \in CreateCommands THEN build_create(a)
    ELSE IF a.cmd \in UpdateCommands THEN build_update(a)
    ELSE Built("none", PyNone, "none", NotCalled, NotCalled)

(***************************************************************************)
(* The order in which a cmd_* function does its work.  cmd_call resolves   *)
(* its inputs and then opens the session; every other command opens the    *)
(* session first.                                                          *)
(***************************************************************************)
FirstStage(cmd) == IF cmd = "call" THEN "resolve" ELSE "load"

AfterLoad(cmd) == IF cmd \in BodyCommands THEN "resolve" ELSE "request"

AfterResolve(cmd) == IF cmd = "call" THEN "load" ELSE "request"

(***************************************************************************)
(* request(): the responses the service can give and their classification. *)
(***************************************************************************)
ContentTypes == {"application/json; charset=UTF-8", "text/plain", ""}

\* "application/json" in content_type
IsJsonType(ct) == ct = "application/json; charset=UTF-8"

Responses ==
    [status : {200, 204, 399, 400, 401, 404, 500}, ctype : ContentTypes,
     text : {ObjText, "Not Found"}]

\* The responses the invocations that race on the credential file get.
RaceResponses ==
    {r \in Responses : r.status \in {200, 404} /\ r.text = ObjText /\ r.ctype # ""}

\* No response: the value of response[p] until session.request returns.
NoResponse == [status |-> 0, ctype |-> "", text |-> ""]

\* What request() returns or raises for a response.
classify(resp) ==
    LET parsed == json_loads(resp.text)
    IN  IF IsJsonType(resp.ctype) /\ resp.status # 204 /\ ~parsed.ok THEN
            [err |-> "response_decode", result |-> PyNone]
        ELSE IF resp.status >= 400 THEN
            [err |-> "http_error",
             result |-> [tag |-> "HTTPError", status |-> resp.status,
                         payload |-> IF IsJsonType(resp.ctype) THEN parsed.val
                                     ELSE Dict([error |-> resp.text])]]
        ELSE IF resp.status = 204 THEN
            [err |-> "none", result |-> Dict([status |-> "deleted"])]
        ELSE IF IsJsonType(resp.ctype) THEN
            [err |-> "none", result |-> parsed.val]
        ELSE
            [err |-> "none", result |-> Dict([text |-> resp.text])]

(***************************************************************************)
(* request(): the URL.  A path is a sequence of characters; the fixed      *)
(* parts of the named commands' paths and the two base URLs, which the     *)
(* code never looks inside, are written as one element.                    *)
(***************************************************************************)
CALENDAR_BASE_URL == <<"https://www.googleapis.com/calendar/v3">>

TASKS_BASE_URL == <<"https://tasks.googleapis.com/tasks/v1">>

HttpPrefix == <<"h", "t", "t", "p", ":", "/", "/">>

HttpsPrefix == <<"h", "t", "t", "p", "s", ":", "/", "/">>

\* str.startswith
StartsWith(s, prefix) ==
    Len(s) >= Len(prefix) /\ SubSeq(s, 1, Len(prefix)) = prefix

IsAbsoluteUrl(path) == StartsWith(path, HttpPrefix) \/ StartsWith(path, HttpsPrefix)

\* Mutation of the slash test: a slash is prepended whatever the path
\* starts with.
ensure_leading_slash_always(path) == <<"/">> \o path

\* request, lines 56-57: the path is made to start with "/".
ensure_leading_slash(path) ==
    IF StartsWith(path, <<"/">>) THEN path ELSE <<"/">> \o path

\* request, lines 53-58: the URL that is requested.
resolve_url(path, base_url) ==
    IF IsAbsoluteUrl(path) THEN path ELSE base_url \o ensure_leading_slash(path)

\* args.method.upper(), on the methods the model hands to call.
Upper(method) ==
    CASE method = "get"   -> "GET"
      [] method = "patch" -> "PATCH"
      [] OTHER            -> method

\* The method, path and base URL each command hands to request().
CommandMethod(a) ==
    CASE a.cmd = "call" -> Upper(a.method)
      [] a.cmd \in CreateCommands \cup {"freebusy", "move-task", "clear-tasks"} -> "POST"
      [] a.cmd \in UpdateCommands -> "PATCH"
      [] a.cmd \in {"delete-event", "delete-tasklist", "delete-task"} -> "DELETE"
      [] OTHER -> "GET"

CommandPath(a) ==
    CASE a.cmd = "call" -> a.path
      [] a.cmd = "list-calendars" -> <<"/", "users/me/calendarList">>
      [] a.cmd \in {"list-events", "create-event"} ->
            <<"/", "calendars/", "{calendar_id}", "/events">>
      [] a.cmd \in {"get-event", "update-event", "delete-event"} ->
            <<"/", "calendars/", "{calendar_id}", "/events/", "{event_id}">>
      [] a.cmd = "freebusy" -> <<"/", "freeBusy">>
      [] a.cmd \in {"list-tasklists", "create-tasklist"} -> <<"/", "users/@me/lists">>
      [] a.cmd \in {"get-tasklist", "update-tasklist", "delete-tasklist"} ->
            <<"/", "users/@me/lists/", "{tasklist}">>
      [] a.cmd \in {"list-tasks", "create-task"} ->
            <<"/", "lists/", "{tasklist}", "/tasks">>
      [] a.cmd \in {"get-task", "update-task", "delete-task"} ->
            <<"/", "lists/", "{tasklist}", "/tasks/", "{task_id}">>
      [] a.cmd = "move-task" ->
            <<"/", "lists/", "{tasklist}", "/tasks/", "{task_id}", "/move">>
      [] OTHER -> <<"/", "lists/", "{tasklist}", "/clear">>

CalendarCommands ==
    {"call", "list-calendars", "list-events", "get-event", "create-event",
     "update-event", "delete-event", "freebusy"}

CommandBase(a) ==
    IF a.cmd \in CalendarCommands THEN CALENDAR_BASE_URL ELSE TASKS_BASE_URL

\* session.request(method=method, url=url, params=params, json=body)
Outgoing(a, b) ==
    [method |-> CommandMethod(a),
     url |-> resolve_url(CommandPath(a), CommandBase(a)),
     json |-> b]

\* The value of sent[p] until session.request is called.
NothingSent == [method |-> NONE, url |-> <<>>, json |-> PyNone]

\* How many times x occurs in a sequence.
Count(seq, x) == Cardinality({i \in 1..Len(seq) : seq[i] = x})

\* request() returns to the command, the command to main(); an exception
\* travels the same way.  Nothing calls request() again.
AfterRequest(e) == "exit"

\* session.request(...), line 60, on the AuthorizedSession that line 42
\* builds with the library's defaults: a response with status 401 makes the
\* session refresh its credential and send the request again, for the first
\* two such responses of a call; calls counts the requests sent so far, this
\* one included.
SessionRefreshes(resp, calls) == resp.status \in {401} /\ calls <= 2

(***************************************************************************)
(* main(): exit code and output.                                           *)
(***************************************************************************)
\* Mutation of the exit code: main() returns 0 after the except branch too.
ExitCodeAlwaysZero(e) == IF e = "none" THEN 0 ELSE 0

\* main(), lines 595-600: 1 from the except branch, 0 after the print.
ExitCode(e) == IF e = "none" THEN 0 ELSE 1

\* json.dumps(result, indent=2, sort_keys=True), as the text printed.
dumps(v) == [format |-> "json indent=2 sort_keys", of |-> v]

NothingPrinted == [format |-> "", of |-> PyNone]

\* What main() prints to standard output.
Printed(e, r) == IF e = "none" THEN dumps(r) ELSE NothingPrinted

\* What main() prints to standard error: "Error: {exc}".
Reported(e) == IF e = "none" THEN "" ELSE e

(***************************************************************************)
(* The steps of one invocation.                                            *)
(***************************************************************************)
Raise(p, e) ==
    /\ err' = [err EXCEPT ![p] = e]
    /\ pc' = [pc EXCEPT ![p] = "exit"]

\* main(): parser.parse_args() hands the Namespace to the command function.
ParseArgs(p, choices) ==
    /\ pc[p] = "start"
    /\ \E a \in choices :
        /\ args' = [args EXCEPT ![p] = a]
        /\ pc' = [pc EXCEPT ![p] = FirstStage(a.cmd)]
    /\ UNCHANGED <<file, file0, issued, creds, loadState, inputs, body, source,
                   net, err, result, exitcode, response, sent, stdout, stderr,
                   timeVars, urlVars>>

\* load_credentials up to the refresh: the existence check, the read of the
\* file and the test of creds.expired and creds.refresh_token.
LoadCredentials(p) ==
    /\ pc[p] = "load"
    /\ IF ~TokenFileExists(file) THEN
            /\ Raise(p, "token_file_not_found")
            /\ loadState' = [loadState EXCEPT ![p] = "raised"]
            /\ UNCHANGED creds
       ELSE IF file.kind # "json" THEN
            /\ Raise(p, "token_file_invalid")
            /\ loadState' = [loadState EXCEPT ![p] = "raised"]
            /\ UNCHANGED creds
       ELSE LET c == from_authorized_user_file(file)
            IN  /\ creds' = [creds EXCEPT ![p] = c]
                /\ UNCHANGED err
                /\ IF NeedsRefresh(c) THEN
                        /\ pc' = [pc EXCEPT ![p] = "refresh"]
                        /\ loadState' = [loadState EXCEPT ![p] = "running"]
                   ELSE /\ pc' = [pc EXCEPT ![p] = AfterLoad(args[p].cmd)]
                        /\ loadState' = [loadState EXCEPT ![p] = "returned"]
    /\ UNCHANGED <<file, file0, issued, args, inputs, body, source, net, result,
                   exitcode, response, sent, stdout, stderr,
                   timeVars, urlVars>>

\* creds.refresh(Request()): one call to the token endpoint, which issues a
\* new access token or refuses.
Refresh(p) ==
    /\ pc[p] = "refresh"
    /\ net' = [net EXCEPT ![p] = Append(@, "refresh")]
    /\ \/ /\ issued' = issued + 1
          /\ creds' = [creds EXCEPT ![p] = Refreshed(@, issued + 1)]
          /\ pc' = [pc EXCEPT ![p] = "write_open"]
          /\ UNCHANGED <<err, loadState>>
       \/ /\ Raise(p, "refresh_error")
          /\ loadState' = [loadState EXCEPT ![p] = "raised"]
          /\ UNCHANGED <<issued, creds>>
    /\ UNCHANGED <<file, file0, args, inputs, body, source, result, exitcode,
                   response, sent, stdout, stderr, timeVars, urlVars>>

\* resolved.write_text(...), first half: open(mode="w") truncates the file.
WriteTextOpen(p) ==
    /\ pc[p] = "write_open"
    /\ file' = TruncatedFile
    /\ pc' = [pc EXCEPT ![p] = "write_data"]
    /\ UNCHANGED <<file0, issued, args, creds, loadState, inputs, body, source,
                   net, err, result, exitcode, response, sent, stdout, stderr,
                   timeVars, urlVars>>

\* resolved.write_text(creds.to_json()), second half: the data is written
\* and load_credentials returns.
WriteTextData(p) ==
    /\ pc[p] = "write_data"
    /\ file' = to_json(creds[p])
    /\ loadState' = [loadState EXCEPT ![p] = "returned"]
    /\ pc' = [pc EXCEPT ![p] = AfterLoad(args[p].cmd)]
    /\ UNCHANGED <<file0, issued, args, creds, inputs, body, source, net, err,
                   result, exitcode, response, sent, stdout, stderr,
                   timeVars, urlVars>>

\* The command resolves its JSON inputs and settles its body.
BuildRequest(p) ==
    /\ pc[p] = "resolve"
    /\ LET b == build(args[p])
       IN  /\ inputs' = [inputs EXCEPT ![p] = b.inputs]
           /\ body' = [body EXCEPT ![p] = b.body]
           /\ source' = [source EXCEPT ![p] = b.source]
           /\ IF b.err # "none" THEN Raise(p, b.err)
              ELSE /\ pc' = [pc EXCEPT ![p] = AfterResolve(args[p].cmd)]
                   /\ UNCHANGED err
    /\ UNCHANGED <<file, file0, issued, args, creds, loadState, net, result,
                   exitcode, response, sent, stdout, stderr,
                   timeVars, urlVars>>

\* request(): session.request(...) and the classification of the response.
\* The authorized session sends nothing with a credential that is not valid
\* and cannot be refreshed.  After a response that makes the session refresh
\* (SessionRefreshes) it refreshes the credential it holds, which needs the
\* refresh token, and sends the request again; the token file is not
\* written, and creds[p] stays what load_credentials returned.
Request(p, responses) ==
    /\ pc[p] = "request"
    /\ IF ~Valid(creds[p]) THEN
            /\ Raise(p, "auth_error")
            /\ UNCHANGED <<net, result, response, sent>>
       ELSE /\ sent' = [sent EXCEPT ![p] = Outgoing(args[p], body[p])]
            /\ \/ /\ net' = [net EXCEPT ![p] = Append(@, "api")]
                  /\ Raise(p, "transport_error")
                  /\ UNCHANGED <<result, response>>
               \/ \E resp \in responses :
                    /\ response' = [response EXCEPT ![p] = resp]
                    /\ IF ~SessionRefreshes(resp, Count(net[p], "api") + 1) THEN
                            /\ net' = [net EXCEPT ![p] = Append(@, "api")]
                            /\ result' = [result EXCEPT ![p] = classify(resp).result]
                            /\ err' = [err EXCEPT ![p] = classify(resp).err]
                            /\ pc' = [pc EXCEPT ![p] = AfterRequest(classify(resp).err)]
                       ELSE IF ~Truthy(creds[p].refresh_token) THEN
                            /\ net' = [net EXCEPT ![p] = Append(@, "api")]
                            /\ Raise(p, "session_refresh_error")
                            /\ UNCHANGED result
                       ELSE /\ net' = [net EXCEPT ![p] = @ \o <<"api", "session_refresh">>]
                            /\ \/ UNCHANGED <<pc, err, result>>
                               \/ /\ Raise(p, "session_refresh_error")
                                  /\ UNCHANGED result
    /\ UNCHANGED <<file, file0, issued, args, creds, loadState, inputs, body,
                   source, exitcode, stdout, stderr, timeVars, urlVars>>

\* main(): the caught exception is printed to standard error and gives exit
\* code 1; a result is printed to standard output and gives exit code 0.
MainExit(p) ==
    /\ pc[p] = "exit"
    /\ exitcode' = [exitcode EXCEPT ![p] = ExitCode(err[p])]
    /\ stdout' = [stdout EXCEPT ![p] = Printed(err[p], result[p])]
    /\ stderr' = [stderr EXCEPT ![p] = Reported(err[p])]
    /\ pc' = [pc EXCEPT ![p] = "done"]
    /\ UNCHANGED <<file, file0, issued, args, creds, loadState, inputs, body,
                   source, net, err, result, response, sent, timeVars, urlVars>>

Step(p, choices, responses) ==
    \/ ParseArgs(p, choices)
    \/ LoadCredentials(p)
    \/ Refresh(p)
    \/ WriteTextOpen(p)
    \/ WriteTextData(p)
    \/ BuildRequest(p)
    \/ Request(p, responses)
    \/ MainExit(p)

InitProcs ==
    /\ file \in InitialFiles
    /\ file0 = file
    /\ issued = 0
    /\ pc = [p \in Procs |-> "start"]
    /\ args = [p \in Procs |-> NoArgs("call")]
    /\ creds = [p \in Procs |-> NoCreds]
    /\ loadState = [p \in Procs |-> "not_called"]
    /\ inputs = [p \in Procs |-> [params |-> NotCalled, body |-> NotCalled]]
    /\ body = [p \in Procs |-> PyNone]
    /\ source = [p \in Procs |-> "none"]
    /\ net = [p \in Procs |-> <<>>]
    /\ err = [p \in Procs |-> "none"]
    /\ result = [p \in Procs |-> PyNone]
    /\ exitcode = [p \in Procs |-> -1]
    /\ response = [p \in Procs |-> NoResponse]
    /\ sent = [p \in Procs |-> NothingSent]
    /\ stdout = [p \in Procs |-> NothingPrinted]
    /\ stderr = [p \in Procs |-> ""]

NotApplied == [applied |-> FALSE, obj |-> [date |-> <<>>]]

InitTimeIdle ==
    /\ tvalue = <<>>
    /\ tzone = NONE
    /\ tresult = NotApplied

NotResolved == [applied |-> FALSE, url |-> <<>>]

InitUrlIdle ==
    /\ utarget = <<>>
    /\ ubase = CALENDAR_BASE_URL
    /\ uresult = NotResolved

\* One invocation.
Init == InitProcs /\ InitTimeIdle /\ InitUrlIdle

Next == Step("A", AllArgs, Responses)

Spec == Init /\ [][Next]_vars

\* Two invocations running at the same time on the same credential file.
NextRace == \E p \in Procs : Step(p, RaceArgs, RaceResponses)

SpecRace == Init /\ [][NextRace]_vars

(***************************************************************************)
(* One invocation of a create or update command, with every combination of *)
(* its structured fields given or left out.                                *)
(***************************************************************************)
\* The value a structured field has when it is given.
GivenValue(k) ==
    CASE k = "summary"     -> "Standup"
      [] k = "start"       -> DateTimeValue
      [] k = "end"         -> DateValue
      [] k = "location"    -> "Room 1"
      [] k = "description" -> "Daily"
      [] k = "attendees"   -> <<"a@example.com", "", "b@example.com">>
      [] k = "recurrence"  -> <<"RRULE:FREQ=DAILY">>
      [] k = "title"       -> "Buy milk"
      [] k = "notes"       -> "2 l"
      [] k = "due"         -> "2024-01-02T00:00:00Z"
      [] k = "status"      -> "needsAction"
      [] k = "completed"   -> "2024-01-03T00:00:00Z"

\* The value a structured field has when it is left out (None, or the
\* argparse default []) or given as the empty string.
LeftOutValue(k, blank) ==
    IF k \in {"start", "end", "attendees", "recurrence"} THEN <<>>
    ELSE IF blank THEN "" ELSE NONE

\* The Namespace in which the fields in given are given, with --time-zone tz.
WithFields(cmd, given, blank, tz) ==
    LET v(k) == IF k \in given THEN GivenValue(k) ELSE LeftOutValue(k, blank)
    IN  [NoArgs(cmd) EXCEPT
            !.summary = v("summary"), !.start = v("start"), !.end = v("end"),
            !.location = v("location"), !.description = v("description"),
            !.attendees = v("attendees"), !.recurrence = v("recurrence"),
            !.title = v("title"), !.notes = v("notes"), !.due = v("due"),
            !.status = v("status"), !.completed = v("completed"),
            !.time_zone = tz]

FieldKeys(cmd) ==
    IF cmd \in EventCommands THEN RequiredEventKeys \cup OptionalEventKeys
    ELSE IF cmd \in TaskCommands THEN TaskKeys
    ELSE {"title"}

FieldArgsOf(cmd) ==
    {[WithFields(cmd, given, blank, IF blank THEN NONE ELSE "Asia/Tokyo")
        EXCEPT !.body = b] :
        given \in SUBSET FieldKeys(cmd), blank \in BOOLEAN, b \in {NONE, ObjText}}

FieldArgs == UNION {FieldArgsOf(cmd) : cmd \in BodyCommands}

NextFields == Step("A", FieldArgs, RaceResponses)

SpecFields == Init /\ [][NextFields]_vars

(***************************************************************************)
(* time_object over bounded strings.                                       *)
(***************************************************************************)
TimeMaxLen == 12

TimeChars == {"T", "Z", "+", "-", "0"}

\* Strings of "0" up to TimeMaxLen long in which the first character, the
\* 10th, the 11th and the last are any of TimeChars.
TimeValues ==
    {[i \in 1..n |-> IF i = 1 THEN c[1]
                     ELSE IF i = DatePortionLen THEN c[2]
                     ELSE IF i = DatePortionLen + 1 THEN c[3]
                     ELSE IF i = n THEN c[4]
                     ELSE "0"] :
        n \in 0..TimeMaxLen, c \in [1..4 -> TimeChars]}

TimeZones == {NONE, "", "America/New_York"}

ApplyTimeObject ==
    /\ ~tresult.applied
    /\ tresult' = [applied |-> TRUE, obj |-> time_object(tvalue, tzone)]
    /\ UNCHANGED <<procVars, tvalue, tzone, urlVars>>

InitTime ==
    /\ InitProcs
    /\ file = MissingFile
    /\ tvalue \in TimeValues
    /\ tzone \in TimeZones
    /\ tresult = NotApplied
    /\ InitUrlIdle

NextTime == ApplyTimeObject

SpecTime == InitTime /\ [][NextTime]_vars

(***************************************************************************)
(* The URL resolution of request() over bounded paths.                     *)
(***************************************************************************)
UrlMaxLen == 3

\* What a path can begin with: nothing, slashes, a scheme prefix or
\* something close to one.
UrlPrefixes ==
    {<<>>, <<"/">>, HttpPrefix, HttpsPrefix,
     <<"h", "t", "t", "p", ":", "/">>,
     <<"h", "t", "t", "p", "s", ":", "/">>,
     <<"H", "T", "T", "P", ":", "/", "/">>,
     <<"f", "t", "p", ":", "/", "/">>,
     <<"/">> \o HttpsPrefix}

\* What follows: up to UrlMaxLen characters, each "a" or "/".
UrlSuffixes == UNION {[1..n -> {"a", "/"}] : n \in 0..UrlMaxLen}

UrlTargets == {pre \o suf : pre \in UrlPrefixes, suf \in UrlSuffixes}

ResolveUrl ==
    /\ ~uresult.applied
    /\ uresult' = [applied |-> TRUE, url |-> resolve_url(utarget, ubase)]
    /\ UNCHANGED <<procVars, timeVars, utarget, ubase>>

InitUrl ==
    /\ InitProcs
    /\ file = MissingFile
    /\ InitTimeIdle
    /\ utarget \in UrlTargets
    /\ ubase \in {CALENDAR_BASE_URL, TASKS_BASE_URL}
    /\ uresult = NotResolved

NextUrl == ResolveUrl

SpecUrl == InitUrl /\ [][NextUrl]_vars

(***************************************************************************)
(* Properties.                                                             *)
(***************************************************************************)
\* load_credentials has finished for p, by returning or by raising.
LoadFinished(p) == loadState[p] \in {"returned", "raised"}

\* The credential the file held before any invocation started.
StoredCreds == from_authorized_user_file(file0)

StoredExpiredNoRefreshToken ==
    file0.kind = "json" /\ Expired(StoredCreds) /\ ~Truthy(StoredCreds.refresh_token)

StoredExpiredWithRefreshToken ==
    file0.kind = "json" /\ Expired(StoredCreds) /\ Truthy(StoredCreds.refresh_token)

StoredValid == file0.kind = "json" /\ ~Expired(StoredCreds)

\* C1: when the stored credential is expired and has no refresh token,
\* load_credentials fails (it raises and returns no credential) and makes no
\* network call.
C1_ExpiredWithoutRefreshTokenFails ==
    \A p \in Procs :
        (LoadFinished(p) /\ StoredExpiredNoRefreshToken)
            => (loadState[p] = "raised" /\ net[p] = <<>>)

\* An update command given no structured field and no inline or file body.
UpdateWithNothing(a) ==
    /\ a.cmd \in UpdateCommands
    /\ Supplied(a, RequiredEventKeys \cup OptionalEventKeys \cup TaskKeys) = {}
    /\ ~Truthy(a.body)
    /\ ~Truthy(a.body_file)

\* C2: an update command with no structured field and no body fails, and no
\* network call, neither a token refresh nor an API request, is made before
\* it does, whatever the stored credential is.
C2_EmptyUpdateFailsBeforeNetwork ==
    \A p \in Procs :
        (pc[p] # "start" /\ UpdateWithNothing(args[p]))
            => /\ net[p] = <<>>
               /\ pc[p] = "done" => err[p] # "none"

\* C3: when inline or file JSON fails to parse, the failure is raised before
\* any network call, a token refresh included, has been made.
C3_MalformedJsonBeforeNetwork ==
    \A p \in Procs : err[p] = "json_decode" => net[p] = <<>>

CredentialErrors ==
    {"token_file_not_found", "token_file_invalid", "refresh_error", "auth_error"}

\* C4: an invocation whose credential fails sends no API request: a missing
\* token file is reported as such by load_credentials, and after any
\* credential failure (load raised, or the credential is expired with no
\* means to refresh) the log of network calls holds no API request and the
\* invocation does not end in success.
C4_NoApiRequestAfterCredentialFailure ==
    \A p \in Procs :
        /\ (loadState[p] = "raised" \/ err[p] \in CredentialErrors)
                => Count(net[p], "api") = 0
        /\ (LoadFinished(p) /\ file0 = MissingFile)
                => (loadState[p] = "raised" /\ err[p] = "token_file_not_found")
        /\ (loadState[p] = "returned" /\ ~Valid(creds[p]))
                => /\ Count(net[p], "api") = 0
                   /\ pc[p] = "done" => err[p] # "none"

C4_Witness ==
    \E p \in Procs :
        pc[p] = "done" /\ file0 = MissingFile /\ err[p] = "token_file_not_found"

\* C5: when the stored credential is expired and has a refresh token, load
\* makes exactly one refresh call; when the refresh succeeds the file holds
\* the serialized refreshed credential once load has returned, and when it
\* fails the file is as it was.
C5_ExpiredWithRefreshTokenRefreshesOnce ==
    \A p \in Procs :
        (LoadFinished(p) /\ StoredExpiredWithRefreshToken)
            => /\ Count(net[p], "refresh") = 1
               /\ loadState[p] = "returned"
                    => /\ Valid(creds[p])
                       /\ creds[p].token # StoredCreds.token
                       /\ file.kind = "json"
                       /\ from_authorized_user_file(file) = creds[p]
               /\ loadState[p] = "raised" => file = file0

C5_Witness ==
    \E p \in Procs :
        /\ loadState[p] = "returned"
        /\ StoredExpiredWithRefreshToken
        /\ file # file0
        /\ pc[p] = "done"

\* C6: when the stored credential is not expired, load returns it as stored,
\* makes no refresh call and leaves the file as it was.
C6_ValidCredentialLoadedUnchanged ==
    \A p \in Procs :
        (loadState[p] # "not_called" /\ StoredValid)
            => /\ loadState[p] = "returned"
               /\ creds[p] = StoredCreds
               /\ Count(net[p], "refresh") = 0
               /\ file = file0

C6_Witness ==
    \E p \in Procs :
        /\ pc[p] = "done"
        /\ StoredValid
        /\ Truthy(StoredCreds.refresh_token)
        /\ Count(net[p], "api") = 1

\* C7: the credential file always holds either the complete original content
\* or a complete refreshed credential, and no invocation ever reads anything
\* else from it.
C7_FileNeverPartial ==
    /\ \/ file = file0
       \/ /\ file.kind = "json"
          /\ file.data[1] \in 1..issued
    /\ \A p \in Procs : err[p] # "token_file_invalid"

\* The load_json_input calls invocation p has made, with their arguments.
ResolverCalls(p) ==
    {c \in {[raw |-> args[p].params, path |-> args[p].params_file,
             out |-> inputs[p].params],
            [raw |-> args[p].body, path |-> args[p].body_file,
             out |-> inputs[p].body]} :
        c.out.err # "not_called"}

ConflictRaised(c) ==
    c.out.err = "usage_conflict" /\ c.out.reads = 0 /\ c.out.parses = 0

\* C8 as stated: a load_json_input call given both an inline text and a file
\* path, whatever they are, raises the usage error without opening the file
\* or parsing anything.
C8_BothSourcesAlwaysRejected ==
    \A p \in Procs : \A c \in ResolverCalls(p) :
        (c.raw # NONE /\ c.path # NONE) => ConflictRaised(c)

\* C8 amended: a load_json_input call given both a non-empty inline text and
\* a non-empty file path raises the usage error without opening the file or
\* parsing anything, and the invocation ends with that error.
C8_BothNonEmptySourcesRejected ==
    \A p \in Procs : \A c \in ResolverCalls(p) :
        (c.raw \notin {NONE, ""} /\ c.path \notin {NONE, ""})
            => (ConflictRaised(c) /\ err[p] = "usage_conflict")

C8_Witness ==
    \E p \in Procs :
        /\ pc[p] = "done"
        /\ args[p].body = ObjText
        /\ args[p].body_file = ObjFile
        /\ inputs[p].body.err = "usage_conflict"

\* C9: in a create or update command, whenever an inline or file JSON
\* override was supplied and parsed, the resolver's result is not the
\* "absent" value and the body is not assembled from structured fields.
C9_OverrideNeverAssembles ==
    \A p \in Procs :
        (/\ args[p].cmd \in BodyCommands
         /\ inputs[p].body.err = "none"
         /\ Truthy(args[p].body) \/ Truthy(args[p].body_file))
            => (~BodyIsNone(inputs[p].body.val) /\ source[p] # "fields")

\* The shape of what time_object returned: which of the three objects.
IsDateObject(o, v) == DOMAIN o = {"date"} /\ o.date = v

IsDateTimeObject(o, v) ==
    /\ "dateTime" \in DOMAIN o
    /\ DOMAIN o \subseteq {"dateTime", "timeZone"}
    /\ o.dateTime = v

HasTimeZone(o) == "timeZone" \in DOMAIN o

\* C10 as stated: a date-time object when the value contains "T" and a date
\* object otherwise; timeZone is attached exactly when a fallback zone is
\* supplied, the value has no "Z", and what follows the 10th character has
\* neither "+" nor "-".
C10_OffsetLookedForAfterDateOnly ==
    tresult.applied =>
        LET v == tvalue
            o == tresult.obj
        IN  /\ Contains(v, "T") => IsDateTimeObject(o, v)
            /\ ~Contains(v, "T") => IsDateObject(o, v)
            /\ HasTimeZone(o) <=>
                /\ Contains(v, "T")
                /\ Truthy(tzone)
                /\ \A i \in 1..Len(v) : v[i] # "Z"
                /\ \A i \in (DatePortionLen + 1)..Len(v) : v[i] \notin {"+", "-"}

\* C10 amended: as stated, except that a "+" anywhere in the value, the
\* first 10 characters included, keeps the zone from being attached; only
\* "-" is looked for after the 10th character alone.
C10_PlusAnywhereMinusAfterDate ==
    tresult.applied =>
        LET v == tvalue
            o == tresult.obj
        IN  /\ Contains(v, "T") => IsDateTimeObject(o, v)
            /\ ~Contains(v, "T") => IsDateObject(o, v)
            /\ HasTimeZone(o) => o.timeZone = tzone
            /\ HasTimeZone(o) <=>
                /\ Contains(v, "T")
                /\ Truthy(tzone)
                /\ \A i \in 1..Len(v) : v[i] \notin {"Z", "+"}
                /\ \A i \in (DatePortionLen + 1)..Len(v) : v[i] # "-"

C10_Witness ==
    /\ tresult.applied
    /\ Truthy(tzone)
    /\ Len(tvalue) > DatePortionLen
    /\ tvalue[1] = "+"
    /\ tvalue[DatePortionLen] = "-"
    /\ tvalue[DatePortionLen + 1] = "T"
    /\ ~Contains(tvalue, "Z")
    /\ ~Contains(AfterDatePortion(tvalue), "+")
    /\ ~HasTimeZone(tresult.obj)

\* The create-event invocations that gave no inline and no file body and
\* have reached the point where the body is settled.
CreateEventFromFields(p) ==
    /\ args[p].cmd = "create-event"
    /\ ~Truthy(args[p].body)
    /\ ~Truthy(args[p].body_file)
    /\ inputs[p].body.err = "none"

GivenFields(a, keys) ==
    {k \in keys :
        IF k \in {"summary", "location", "description"}
        THEN a[k] \notin {NONE, ""}
        ELSE a[k] # <<>>}

FailsWithStatus(p, payload) ==
    /\ err[p] = "http_error"
    /\ result[p].tag = "HTTPError"
    /\ result[p].status = response[p].status
    /\ result[p].payload = payload

Returns(p, value) == err[p] = "none" /\ result[p] = value

\* C12: every response is classified in this order: status >= 400 fails
\* with the status code and the parsed JSON body, or {"error": raw text}
\* when the content type is not JSON; else status 204 returns
\* {"status": "deleted"}; else a JSON content type returns the parsed body;
\* else {"text": raw body} is returned.
C12_ResponseClassification ==
    \A p \in Procs :
        response[p] # NoResponse =>
            LET r == response[p]
                isJson == r.ctype = "application/json; charset=UTF-8"
            IN  IF r.status >= 400 THEN
                    IF isJson
                    THEN json_loads(r.text).ok
                            /\ FailsWithStatus(p, json_loads(r.text).val)
                    ELSE FailsWithStatus(p, Dict([error |-> r.text]))
                ELSE IF r.status = 204 THEN
                    Returns(p, Dict([status |-> "deleted"]))
                ELSE IF isJson THEN
                    json_loads(r.text).ok /\ Returns(p, json_loads(r.text).val)
                ELSE Returns(p, Dict([text |-> r.text]))

\* The target begins with "http://" or "https://".
HasScheme(t) ==
    \/ Len(t) >= 7 /\ SubSeq(t, 1, 7) = <<"h", "t", "t", "p", ":", "/", "/">>
    \/ Len(t) >= 8 /\ SubSeq(t, 1, 8) = <<"h", "t", "t", "p", "s", ":", "/", "/">>

\* The part of the resolved URL that follows the base URL.
AfterBase(url, base) == SubSeq(url, Len(base) + 1, Len(url))

JoinedOntoBase(url, base) ==
    Len(url) >= Len(base) /\ SubSeq(url, 1, Len(base)) = base

\* C13 as stated: a target beginning with http:// or https:// is the URL
\* and the base URL is not used; any other target is joined onto the base
\* URL beginning with exactly one slash.
C13_ExactlyOneLeadingSlash ==
    uresult.applied =>
        IF HasScheme(utarget) THEN uresult.url = utarget
        ELSE LET n == AfterBase(uresult.url, ubase)
             IN  /\ JoinedOntoBase(uresult.url, ubase)
                 /\ Len(n) >= 1 /\ n[1] = "/"
                 /\ Len(n) >= 2 => n[2] # "/"

\* C13 amended: a target beginning with http:// or https:// is the URL and
\* the base URL is not used; any other target is joined onto the base URL
\* as it is when it begins with a slash (further leading slashes are kept)
\* and with one slash put before it when it does not.
C13_LeadingSlashPrependedIfMissing ==
    uresult.applied =>
        IF HasScheme(utarget) THEN uresult.url = utarget
        ELSE LET n == AfterBase(uresult.url, ubase)
             IN  /\ JoinedOntoBase(uresult.url, ubase)
                 /\ Len(n) >= 1 /\ n[1] = "/"
                 /\ IF Len(utarget) >= 1 /\ utarget[1] = "/"
                    THEN n = utarget
                    ELSE n = <<"/">> \o utarget

C13_Witness ==
    /\ uresult.applied
    /\ Len(utarget) = 3
    /\ utarget[1] = "/" /\ utarget[2] = "/" /\ utarget[3] = "a"
    /\ uresult.url = ubase \o utarget

\* The network calls of an invocation that refresh a credential.
RefreshCalls(p) == Count(net[p], "refresh") + Count(net[p], "session_refresh")

\* C14: an invocation loads the credential at most once with at most one
\* refresh, sends at most one API request, and makes no network call after
\* a failed refresh or after an API request, whatever its outcome.
C14_SingleShotNoRetry ==
    \A p \in Procs :
        /\ RefreshCalls(p) <= 1
        /\ Count(net[p], "api") <= 1
        /\ \A i \in 1..Len(net[p]) : net[p][i] = "api" => i = Len(net[p])
        /\ loadState[p] = "raised" => Len(net[p]) <= 1

\* C15: once main() has returned, the exit code is 0 exactly when the
\* command returned, and then the result is what standard output holds; it
\* is 1 when the command raised, and then standard output holds nothing and
\* standard error the message.  Nothing is printed before that.
C15_ExitCodeAndOutput ==
    \A p \in Procs :
        IF pc[p] # "done" THEN stdout[p] = NothingPrinted /\ stderr[p] = ""
        ELSE /\ exitcode[p] \in {0, 1}
             /\ exitcode[p] = 0 <=> err[p] = "none"
             /\ exitcode[p] = 0 =>
                    /\ stdout[p] = [format |-> "json indent=2 sort_keys", of |-> result[p]]
                    /\ stderr[p] = ""
             /\ exitcode[p] = 1 =>
                    /\ stdout[p] = NothingPrinted
                    /\ stderr[p] # ""

C15_Witness ==
    \E p \in Procs :
        /\ pc[p] = "done"
        /\ err[p] = "http_error"
        /\ exitcode[p] = 1
        /\ stdout[p] = NothingPrinted

\* A create or update command given one JSON override, inline or in a file,
\* that parses to a non-empty object.
OverrideGiven(a) ==
    /\ a.cmd \in BodyCommands
    /\ \/ a.body = ObjText /\ ~Truthy(a.body_file)
       \/ ~Truthy(a.body) /\ a.body_file = ObjFile

OverrideObject == Dict([summary |-> "from-json"])

\* C16: for a create or update command whose JSON override resolves to a
\* non-empty body, the body of the command is that object as parsed,
\* whatever structured fields were given, the command raises neither for a
\* missing required field nor for an empty update, and an API request that
\* is sent carries that object.
C16_OverrideSentVerbatim ==
    \A p \in Procs :
        (OverrideGiven(args[p]) /\ inputs[p].body # NotCalled) =>
            /\ body[p] = OverrideObject
            /\ err[p] \notin {"usage_required", "usage_noupdate"}
            /\ Count(net[p], "api") > 0 => sent[p].json = OverrideObject

C16_Witness ==
    \E p \in Procs :
        /\ pc[p] = "done"
        /\ args[p].cmd = "create-event"
        /\ OverrideGiven(args[p])
        /\ args[p].summary = "Standup"
        /\ args[p].start = <<>>
        /\ Count(net[p], "api") = 1
        /\ sent[p].json = OverrideObject
        /\ err[p] = "none"

====
